---- MODULE Spec2Model ----
(***************************************************************************)
(* Model of github.com/hjunior29/go-utils, package utils                   *)
(* (src/pkg/utils/utils.go).                                               *)
(*                                                                         *)
(* A Go string is a sequence of bytes (0..255); []rune(s), string(runes),  *)
(* `range s` and strings.Builder.WriteRune convert between bytes and       *)
(* codepoints by UTF-8 and are modelled as such.  Every function of the    *)
(* package is pure: it is an operator here, and an action applies it to    *)
(* the inputs drawn by the initial predicate and records what it returns.  *)
(***************************************************************************)
EXTENDS Integers, Sequences, FiniteSets

VARIABLES s, sep, n1, n2, n3, op, ret, err

vars == <<s, sep, n1, n2, n3, op, ret, err>>

(***************************************************************************)
(* Bounds of the model.                                                    *)
(***************************************************************************)
MaxLen == 4      \* texts of the main specification: codepoints per text
MaxInt == 2      \* integer inputs of Clamp range over -MaxInt..MaxInt
MaxRaw == 2      \* raw (possibly ill-formed) byte strings: bytes per string
MaxSlugLen == 4  \* Slugify inputs: codepoints per text
MaxSpaceLen == 4 \* NormalizeSpaces inputs: codepoints per text
MaxSplitLen == 4 \* SafeSplit inputs: bytes per text
MaxSepLen == 2   \* SafeSplit separators: bytes per separator
MaxPalLen == 4   \* IsPalindrome inputs: codepoints per text

(***************************************************************************)
(* Sequences.                                                              *)
(***************************************************************************)
SeqsUpTo(S, n) == UNION {[1..k -> S] : k \in 0..n}

RECURSIVE Flatten(_)
Flatten(ss) == IF ss = <<>> THEN <<>> ELSE Head(ss) \o Flatten(Tail(ss))

(***************************************************************************)
(* UTF-8 (package unicode/utf8, as used by the conversions of utils.go).   *)
(***************************************************************************)
RuneError == 65533   \* U+FFFD, what an ill-formed byte decodes to
MaxRune == 1114111   \* U+10FFFF

IsCont(b) == b >= 128 /\ b <= 191

\* utf8.DecodeRuneInString(s[i:]) with i counted from 1: <<rune, width>>.
DecodeRune(str, i) ==
    LET b0   == str[i]
        have == Len(str) - i + 1
        size == IF b0 < 128 THEN 1
                ELSE IF b0 >= 194 /\ b0 <= 223 THEN 2
                ELSE IF b0 >= 224 /\ b0 <= 239 THEN 3
                ELSE IF b0 >= 240 /\ b0 <= 244 THEN 4
                ELSE 0
        lo1  == IF b0 = 224 THEN 160 ELSE IF b0 = 240 THEN 144 ELSE 128
        hi1  == IF b0 = 237 THEN 159 ELSE IF b0 = 244 THEN 143 ELSE 191
        bad  == <<RuneError, 1>>
    IN  IF size = 1 THEN <<b0, 1>>
        ELSE IF size = 0 \/ have < size THEN bad
        ELSE IF str[i+1] < lo1 \/ str[i+1] > hi1 THEN bad
        ELSE IF size = 2 THEN <<(b0 % 32) * 64 + (str[i+1] % 64), 2>>
        ELSE IF ~IsCont(str[i+2]) THEN bad
        ELSE IF size = 3
             THEN <<(b0 % 16) * 4096 + (str[i+1] % 64) * 64 + (str[i+2] % 64), 3>>
        ELSE IF ~IsCont(str[i+3]) THEN bad
        ELSE <<(b0 % 8) * 262144 + (str[i+1] % 64) * 4096
                 + (str[i+2] % 64) * 64 + (str[i+3] % 64), 4>>

\* utf8.AppendRune / strings.Builder.WriteRune: the bytes of one rune.
EncodeRune(r) ==
    IF r < 0 \/ r > MaxRune \/ (r >= 55296 /\ r <= 57343)
    THEN <<239, 191, 189>>
    ELSE IF r <= 127 THEN <<r>>
    ELSE IF r <= 2047 THEN <<192 + (r \div 64), 128 + (r % 64)>>
    ELSE IF r <= 65535
         THEN <<224 + (r \div 4096), 128 + ((r \div 64) % 64), 128 + (r % 64)>>
    ELSE <<240 + (r \div 262144), 128 + ((r \div 4096) % 64),
           128 + ((r \div 64) % 64), 128 + (r % 64)>>

\* `for i, r := range s`: the pairs <<i, r>>, i the byte offset from 0.
RECURSIVE RangeFrom(_, _)
RangeFrom(str, i) ==
    IF i > Len(str) THEN <<>>
    ELSE LET d == DecodeRune(str, i)
         IN  <<<<i - 1, d[1]>>>> \o RangeFrom(str, i + d[2])

Range(str) == RangeFrom(str, 1)

\* []rune(s)
Runes(str) == LET p == Range(str) IN [k \in 1..Len(p) |-> p[k][2]]

\* string(runes)
String(runes) == Flatten([k \in 1..Len(runes) |-> EncodeRune(runes[k])])

(***************************************************************************)
(* What a call returns.  A function with an error result returns           *)
(* (value, error); err is NoError for Go's nil and the message otherwise.  *)
(* A function without an error result returns only val.  A run-time panic  *)
(* (index or slice bound out of range) is the outcome Panic.               *)
(***************************************************************************)
NoError == "nil"
Panic == "panic: index out of range"

Ok(v) == [val |-> v, err |-> NoError]
Fail(v, msg) == [val |-> v, err |-> msg]

\* runes[i] with i counted from 0: defined only within the slice.
InRange(runes, i) == i >= 0 /\ i < Len(runes)

(***************************************************************************)
(* Reverse                                                                 *)
(***************************************************************************)
RECURSIVE ReverseLoop(_, _, _)
ReverseLoop(runes, i, j) ==
    IF i < j
    THEN ReverseLoop([runes EXCEPT ![i + 1] = runes[j + 1],
                                   ![j + 1] = runes[i + 1]], i + 1, j - 1)
    ELSE runes

ReverseNoLoop(str) == Ok(String(Runes(str)))

Reverse(str) ==
    LET runes == Runes(str)
    IN  Ok(String(ReverseLoop(runes, 0, Len(runes) - 1)))

(***************************************************************************)
(* Clamp, SafeClamp                                                        *)
(***************************************************************************)
ClampNoUpper(val, min, max) ==
    IF min > max THEN Fail(0, "min cannot be greater than max")
    ELSE IF val < min THEN Ok(min)
    ELSE Ok(val)

Clamp(val, min, max) ==
    IF min > max THEN Fail(0, "min cannot be greater than max")
    ELSE IF val < min THEN Ok(min)
    ELSE IF val > max THEN Ok(max)
    ELSE Ok(val)

SafeClampNoCheck(val, min, max) ==
    IF val < min THEN Ok(min)
    ELSE IF val > max THEN Ok(max)
    ELSE Ok(val)

SafeClamp(val, min, max) ==
    IF min > max THEN Fail(0, "min cannot be greater than max")
    ELSE IF val < min THEN Ok(min)
    ELSE IF val > max THEN Ok(max)
    ELSE Ok(val)

(***************************************************************************)
(* Truncate, SafeTruncate                                                  *)
(***************************************************************************)
\* runes[:n]: panics unless 0 <= n <= len(runes).
SliceTo(runes, n) ==
    IF n >= 0 /\ n <= Len(runes) THEN Ok(String(SubSeq(runes, 1, n)))
    ELSE Fail(<<>>, Panic)

TruncateOffByOne(str, n) ==
    IF n < 0 THEN Ok(str)
    ELSE LET runes == Runes(str)
         IN  IF Len(runes) <= n THEN Ok(str) ELSE SliceTo(runes, n + 1)

Truncate(str, n) ==
    IF n < 0 THEN Ok(str)
    ELSE LET runes == Runes(str)
         IN  IF Len(runes) <= n THEN Ok(str) ELSE SliceTo(runes, n)

SafeTruncate(str, n) ==
    IF n < 0 THEN Fail(<<>>, "n cannot be negative")
    ELSE LET runes == Runes(str)
         IN  IF Len(runes) <= n THEN Ok(str) ELSE SliceTo(runes, n)

(***************************************************************************)
(* Swap                                                                    *)
(***************************************************************************)
SwapRunesOverwrite(runes, i, j) ==
    IF InRange(runes, i) /\ InRange(runes, j)
    THEN Ok(String([runes EXCEPT ![i + 1] = runes[j + 1]]))
    ELSE Fail(<<>>, Panic)

SwapRunes(runes, i, j) ==
    IF InRange(runes, i) /\ InRange(runes, j)
    THEN Ok(String([runes EXCEPT ![i + 1] = runes[j + 1], ![j + 1] = runes[i + 1]]))
    ELSE Fail(<<>>, Panic)

SwapNoUpperCheck(str, i, j) ==
    LET runes == Runes(str)
    IN  IF i < 0 \/ j < 0 \/ i >= Len(runes) \/ i = j
        THEN Ok(str)
        ELSE SwapRunes(runes, i, j)

Swap(str, i, j) ==
    LET runes == Runes(str)
    IN  IF i < 0 \/ j < 0 \/ i >= Len(runes) \/ j >= Len(runes) \/ i = j
        THEN Ok(str)
        ELSE SwapRunes(runes, i, j)

(***************************************************************************)
(* ValidateLength                                                          *)
(***************************************************************************)
ValidateLengthLenFirst(str, minLength, maxLength) ==
    LET length == Len(Runes(str))
    IN  IF length < minLength THEN Fail(<<>>, "string is too short")
        ELSE IF length > maxLength THEN Fail(<<>>, "string is too long")
        ELSE IF minLength < 0 \/ maxLength < 0
        THEN Fail(<<>>, "minLength and maxLength must be non-negative")
        ELSE IF minLength > maxLength
        THEN Fail(<<>>, "minLength cannot be greater than maxLength")
        ELSE Ok(<<>>)

ValidateLength(str, minLength, maxLength) ==
    IF minLength < 0 \/ maxLength < 0
    THEN Fail(<<>>, "minLength and maxLength must be non-negative")
    ELSE IF minLength > maxLength
    THEN Fail(<<>>, "minLength cannot be greater than maxLength")
    ELSE LET length == Len(Runes(str))
         IN  IF length < minLength THEN Fail(<<>>, "string is too short")
             ELSE IF length > maxLength THEN Fail(<<>>, "string is too long")
             ELSE Ok(<<>>)

(***************************************************************************)
(* Package unicode, for the codepoints of Basic Latin, Latin-1 Supplement, *)
(* U+0178, the Greek letters U+0391..U+03CE, the White_Space property and  *)
(* the CJK Unified Ideographs; every other codepoint the model meets       *)
(* (U+FFFD) is neither letter, number nor space and has no case.           *)
(***************************************************************************)
IsSpace(r) ==
    IF r <= 255
    THEN r \in {9, 10, 11, 12, 13, 32, 133, 160}
    ELSE \/ r \in {5760, 8232, 8233, 8239, 8287, 12288}
         \/ (r >= 8192 /\ r <= 8202)

IsLetter(r) ==
    \/ (r >= 65 /\ r <= 90) \/ (r >= 97 /\ r <= 122)
    \/ r \in {170, 181, 186}
    \/ (r >= 192 /\ r <= 214) \/ (r >= 216 /\ r <= 246) \/ (r >= 248 /\ r <= 255)
    \/ r = 376
    \/ (r >= 913 /\ r <= 929) \/ (r >= 931 /\ r <= 974)
    \/ (r >= 19968 /\ r <= 40959)

IsNumber(r) ==
    \/ (r >= 48 /\ r <= 57)
    \/ r \in {178, 179, 185, 188, 189, 190}

ToLower(r) ==
    IF \/ (r >= 65 /\ r <= 90)
       \/ (r >= 192 /\ r <= 214)
       \/ (r >= 216 /\ r <= 222)
       \/ (r >= 913 /\ r <= 929)
       \/ (r >= 931 /\ r <= 939)
    THEN r + 32
    ELSE IF r = 376 THEN 255
    ELSE r

ToUpper(r) ==
    IF \/ (r >= 97 /\ r <= 122)
       \/ (r >= 224 /\ r <= 246)
       \/ (r >= 248 /\ r <= 254)
       \/ (r >= 945 /\ r <= 961)
       \/ (r >= 963 /\ r <= 971)
    THEN r - 32
    ELSE IF r = 181 THEN 924
    ELSE IF r = 255 THEN 376
    ELSE IF r = 962 THEN 931
    ELSE r

(***************************************************************************)
(* Package strings.                                                        *)
(***************************************************************************)
\* strings.ToLower(s): strings.Map(unicode.ToLower, s)
StringsToLower(str) ==
    LET runes == Runes(str)
    IN  String([k \in 1..Len(runes) |-> ToLower(runes[k])])

\* strings.Trim(s, cutset) for a cutset of one ASCII byte c
RECURSIVE TrimLeftByte(_, _)
TrimLeftByte(str, c) ==
    IF Len(str) > 0 /\ str[1] = c THEN TrimLeftByte(Tail(str), c) ELSE str

RECURSIVE TrimRightByte(_, _)
TrimRightByte(str, c) ==
    IF Len(str) > 0 /\ str[Len(str)] = c
    THEN TrimRightByte(SubSeq(str, 1, Len(str) - 1), c)
    ELSE str

Trim(str, c) == TrimRightByte(TrimLeftByte(str, c), c)

\* utf8.RuneStart(b)
RuneStart(b) == ~IsCont(b)

\* the first index >= lim, going down from start, that holds a rune start;
\* lim - 1 when there is none
RECURSIVE ScanBack(_, _, _)
ScanBack(str, start, lim) ==
    IF start < lim THEN start
    ELSE IF RuneStart(str[start + 1]) THEN start
    ELSE ScanBack(str, start - 1, lim)

\* utf8.DecodeLastRuneInString(s), s not empty: <<rune, width>>
DecodeLastRune(str) ==
    LET end == Len(str)
        last == str[end]
        lim == IF end - 4 < 0 THEN 0 ELSE end - 4
        back == ScanBack(str, end - 2, lim)
        start == IF back < 0 THEN 0 ELSE back
        d == DecodeRune(SubSeq(str, start + 1, end), 1)
    IN  IF last < 128 THEN <<last, 1>>
        ELSE IF start + d[2] # end THEN <<RuneError, 1>>
        ELSE d

\* strings.TrimLeftFunc(s, unicode.IsSpace)
RECURSIVE TrimLeftSpace(_)
TrimLeftSpace(str) ==
    IF str = <<>> THEN str
    ELSE LET d == DecodeRune(str, 1)
         IN  IF IsSpace(d[1]) THEN TrimLeftSpace(SubSeq(str, d[2] + 1, Len(str)))
             ELSE str

\* strings.TrimRightFunc(s, unicode.IsSpace)
RECURSIVE TrimRightSpace(_)
TrimRightSpace(str) ==
    IF str = <<>> THEN str
    ELSE LET d == DecodeLastRune(str)
         IN  IF IsSpace(d[1]) THEN TrimRightSpace(SubSeq(str, 1, Len(str) - d[2]))
             ELSE str

\* strings.TrimSpace(s)
TrimSpace(str) == TrimRightSpace(TrimLeftSpace(str))

\* strings.Index(s, substr): the byte offset of the first occurrence, or -1
HasPrefixAt(str, sub, i) ==
    /\ i + Len(sub) <= Len(str)
    /\ \A k \in 1..Len(sub) : str[i + k] = sub[k]

Index(str, sub) ==
    LET at == {i \in 0..Len(str) : HasPrefixAt(str, sub, i)}
    IN  IF at = {} THEN -1 ELSE CHOOSE i \in at : \A j \in at : i <= j

\* strings.explode(s, -1): s cut into its UTF-8 sequences
RECURSIVE Explode(_)
Explode(str) ==
    IF str = <<>> THEN <<>>
    ELSE LET d == DecodeRune(str, 1)
         IN  IF d[2] = Len(str) THEN <<str>>
             ELSE <<IF d[1] = RuneError THEN EncodeRune(RuneError)
                    ELSE SubSeq(str, 1, d[2])>>
                  \o Explode(SubSeq(str, d[2] + 1, Len(str)))

\* the loop of strings.genSplit(s, sep, 0, -1), sep not empty
RECURSIVE SplitLoop(_, _)
SplitLoop(str, sub) ==
    LET m == Index(str, sub)
    IN  IF m < 0 THEN <<str>>
        ELSE <<SubSeq(str, 1, m)>> \o SplitLoop(SubSeq(str, m + Len(sub) + 1, Len(str)), sub)

\* strings.Split(s, sep)
Split(str, sub) == IF sub = <<>> THEN Explode(str) ELSE SplitLoop(str, sub)

(***************************************************************************)
(* Slugify                                                                 *)
(***************************************************************************)
Hyphen == <<45>>

\* One pass of the loop body over the pair <<i, r>> of `range s`; st is
\* [builder, lastCharIsHyphen], total is len(s).
SlugifyStepNoFlag(st, i, r, total) ==
    IF IsLetter(r) \/ IsNumber(r)
    THEN [builder |-> st.builder \o EncodeRune(r), lastCharIsHyphen |-> FALSE]
    ELSE IF Len(st.builder) > 0 /\ i < total
         THEN [builder |-> st.builder \o Hyphen, lastCharIsHyphen |-> TRUE]
         ELSE st

SlugifyStep(st, i, r, total) ==
    IF IsLetter(r) \/ IsNumber(r)
    THEN [builder |-> st.builder \o EncodeRune(r), lastCharIsHyphen |-> FALSE]
    ELSE IF ~st.lastCharIsHyphen
         THEN IF Len(st.builder) > 0 /\ i < total
              THEN [builder |-> st.builder \o Hyphen, lastCharIsHyphen |-> TRUE]
              ELSE st
         ELSE st

RECURSIVE SlugifyLoop(_, _, _, _)
SlugifyLoop(st, pairs, k, total) ==
    IF k > Len(pairs) THEN st
    ELSE SlugifyLoop(SlugifyStep(st, pairs[k][1], pairs[k][2], total), pairs, k + 1, total)

Slugify(str) ==
    LET lower == StringsToLower(str)
        st == SlugifyLoop([builder |-> <<>>, lastCharIsHyphen |-> FALSE],
                          Range(lower), 1, Len(lower))
    IN  Ok(Trim(st.builder, 45))

(***************************************************************************)
(* NormalizeSpaces                                                         *)
(***************************************************************************)
NormalizeStepNoFlag(st, r) ==
    IF IsSpace(r)
    THEN [builder |-> st.builder \o <<32>>, lastCharIsSpace |-> TRUE]
    ELSE [builder |-> st.builder \o EncodeRune(r), lastCharIsSpace |-> FALSE]

NormalizeStep(st, r) ==
    IF IsSpace(r)
    THEN IF ~st.lastCharIsSpace
         THEN [builder |-> st.builder \o <<32>>, lastCharIsSpace |-> TRUE]
         ELSE st
    ELSE [builder |-> st.builder \o EncodeRune(r), lastCharIsSpace |-> FALSE]

RECURSIVE NormalizeLoop(_, _, _)
NormalizeLoop(st, runes, k) ==
    IF k > Len(runes) THEN st
    ELSE NormalizeLoop(NormalizeStep(st, runes[k]), runes, k + 1)

NormalizeSpaces(str) ==
    IF str = <<>> THEN Ok(<<>>)
    ELSE LET st == NormalizeLoop([builder |-> <<>>, lastCharIsSpace |-> FALSE],
                                 Runes(str), 1)
         IN  Ok(TrimSpace(st.builder))

(***************************************************************************)
(* SafeSplit                                                               *)
(***************************************************************************)
SafeSplitNoCheck(str, sub) == Ok(Split(str, sub))

SafeSplit(str, sub) ==
    IF sub = <<>> /\ str # <<>>
    THEN Fail(<<>>, "separator cannot be empty if string is not empty")
    ELSE Ok(Split(str, sub))

(***************************************************************************)
(* IsPalindrome                                                            *)
(***************************************************************************)
\* the first loop: the letters and numbers of s, each through unicode.ToLower
RECURSIVE CleanLoop(_, _, _)
CleanLoop(cleanedRunes, runes, k) ==
    IF k > Len(runes) THEN cleanedRunes
    ELSE IF IsLetter(runes[k]) \/ IsNumber(runes[k])
         THEN CleanLoop(Append(cleanedRunes, ToLower(runes[k])), runes, k + 1)
         ELSE CleanLoop(cleanedRunes, runes, k + 1)

\* the second loop, i and j counted from 0
RECURSIVE PalindromeLoop(_, _, _)
PalindromeLoop(cleanedRunes, i, j) ==
    IF i < j
    THEN IF cleanedRunes[i + 1] # cleanedRunes[j + 1] THEN FALSE
         ELSE PalindromeLoop(cleanedRunes, i + 1, j - 1)
    ELSE TRUE

IsPalindrome(str) ==
    LET cleanedRunes == CleanLoop(<<>>, Runes(str), 1)
    IN  Ok(PalindromeLoop(cleanedRunes, 0, Len(cleanedRunes) - 1))

(***************************************************************************)
(* Abs.  Go's int is a fixed-width two's complement integer; the model     *)
(* keeps the wrap-around of its arithmetic at a width of IntBits bits.     *)
(***************************************************************************)
IntBits == 8

MinIntW == -(2 ^ (IntBits - 1))
MaxIntW == 2 ^ (IntBits - 1) - 1

\* the int that the mathematical value x is stored as
Wrap(x) == ((x - MinIntW) % (2 ^ IntBits)) + MinIntW

Abs(n) == IF n < 0 THEN Ok(Wrap(-n)) ELSE Ok(n)

(***************************************************************************)
(* Inputs of the main specification.                                       *)
(***************************************************************************)
\* 'a' (1 byte), U+00E9 (2 bytes), U+4F60 (3 bytes)
MainRunes == {97, 233, 20320}
\* 'a', and the lead and continuation byte of U+00E9 taken apart
RawBytes == {97, 195, 169}

MainTexts == {String(r) : r \in SeqsUpTo(MainRunes, MaxLen)}
                \cup SeqsUpTo(RawBytes, MaxRaw)

Indexes == -1..(MaxLen + 1)
Ints == -MaxInt..MaxInt

Init ==
    /\ op = "init"
    /\ ret = <<>>
    /\ err = NoError
    /\ sep = <<>>
    /\ \/ s \in MainTexts /\ n1 \in Indexes /\ n2 \in Indexes /\ n3 = 0
       \/ s = <<>> /\ n1 \in Ints /\ n2 \in Ints /\ n3 \in Ints

inputs == <<s, sep, n1, n2, n3>>

DoReverse ==
    LET r == Reverse(s)
    IN  op' = "Reverse" /\ ret' = r.val /\ err' = r.err /\ UNCHANGED inputs

DoClamp ==
    LET r == Clamp(n1, n2, n3)
    IN  op' = "Clamp" /\ ret' = r.val /\ err' = r.err /\ UNCHANGED inputs

DoSafeClamp ==
    LET r == SafeClamp(n1, n2, n3)
    IN  op' = "SafeClamp" /\ ret' = r.val /\ err' = r.err /\ UNCHANGED inputs

DoTruncate ==
    LET r == Truncate(s, n1)
    IN  op' = "Truncate" /\ ret' = r.val /\ err' = r.err /\ UNCHANGED inputs

DoSafeTruncate ==
    LET r == SafeTruncate(s, n1)
    IN  op' = "SafeTruncate" /\ ret' = r.val /\ err' = r.err /\ UNCHANGED inputs

DoSwap ==
    LET r == Swap(s, n1, n2)
    IN  op' = "Swap" /\ ret' = r.val /\ err' = r.err /\ UNCHANGED inputs

DoValidateLength ==
    LET r == ValidateLength(s, n1, n2)
    IN  op' = "ValidateLength" /\ ret' = r.val /\ err' = r.err /\ UNCHANGED inputs

Next ==
    \/ DoReverse
    \/ DoClamp
    \/ DoSafeClamp
    \/ DoTruncate
    \/ DoSafeTruncate
    \/ DoSwap
    \/ DoValidateLength

Spec == Init /\ [][Next]_vars

(***************************************************************************)
(* Slugify on its own inputs.                                              *)
(***************************************************************************)
\* ' ', '-', '1', 'A', 'a', U+00C9
SlugRunes == {32, 45, 49, 65, 97, 201}

SlugTexts == {String(r) : r \in SeqsUpTo(SlugRunes, MaxSlugLen)}
                \cup SeqsUpTo(RawBytes, MaxRaw)

InitSlugify ==
    /\ op = "init" /\ ret = <<>> /\ err = NoError
    /\ sep = <<>> /\ n1 = 0 /\ n2 = 0 /\ n3 = 0
    /\ s \in SlugTexts

DoSlugify ==
    LET r == Slugify(s)
    IN  op' = "Slugify" /\ ret' = r.val /\ err' = r.err /\ UNCHANGED inputs

NextSlugify == DoSlugify

SpecSlugify == InitSlugify /\ [][NextSlugify]_vars

(***************************************************************************)
(* NormalizeSpaces on its own inputs.                                      *)
(***************************************************************************)
\* tab, ' ', 'a', U+00A0 (no-break space), U+00E9, U+3000 (ideographic space)
SpaceRunes == {9, 32, 97, 160, 233, 12288}

SpaceTexts == {String(r) : r \in SeqsUpTo(SpaceRunes, MaxSpaceLen)}
                 \cup SeqsUpTo(RawBytes, MaxRaw)

InitNormalizeSpaces ==
    /\ op = "init" /\ ret = <<>> /\ err = NoError
    /\ sep = <<>> /\ n1 = 0 /\ n2 = 0 /\ n3 = 0
    /\ s \in SpaceTexts

DoNormalizeSpaces ==
    LET r == NormalizeSpaces(s)
    IN  op' = "NormalizeSpaces" /\ ret' = r.val /\ err' = r.err /\ UNCHANGED inputs

NextNormalizeSpaces == DoNormalizeSpaces

SpecNormalizeSpaces == InitNormalizeSpaces /\ [][NextNormalizeSpaces]_vars

(***************************************************************************)
(* SafeSplit on its own inputs.                                            *)
(***************************************************************************)
\* ',', ';', 'a'
SplitBytes == {44, 59, 97}

InitSafeSplit ==
    /\ op = "init" /\ ret = <<>> /\ err = NoError
    /\ n1 = 0 /\ n2 = 0 /\ n3 = 0
    /\ s \in SeqsUpTo(SplitBytes, MaxSplitLen)
    /\ sep \in SeqsUpTo(SplitBytes, MaxSepLen)

DoSafeSplit ==
    LET r == SafeSplit(s, sep)
    IN  op' = "SafeSplit" /\ ret' = r.val /\ err' = r.err /\ UNCHANGED inputs

NextSafeSplit == DoSafeSplit

SpecSafeSplit == InitSafeSplit /\ [][NextSafeSplit]_vars

(***************************************************************************)
(* IsPalindrome on its own inputs.                                         *)
(***************************************************************************)
\* ',', '1', 'A', 'a', 'b', U+00B5 (micro sign), U+039C (Greek capital mu)
PalRunes == {44, 49, 65, 97, 98, 181, 924}

PalTexts == {String(r) : r \in SeqsUpTo(PalRunes, MaxPalLen)}
               \cup SeqsUpTo(RawBytes, MaxRaw)

InitIsPalindrome ==
    /\ op = "init" /\ ret = <<>> /\ err = NoError
    /\ sep = <<>> /\ n1 = 0 /\ n2 = 0 /\ n3 = 0
    /\ s \in PalTexts

DoIsPalindrome ==
    LET r == IsPalindrome(s)
    IN  op' = "IsPalindrome" /\ ret' = r.val /\ err' = r.err /\ UNCHANGED inputs

NextIsPalindrome == DoIsPalindrome

SpecIsPalindrome == InitIsPalindrome /\ [][NextIsPalindrome]_vars

(***************************************************************************)
(* Abs on every int of the model's width.                                  *)
(***************************************************************************)
InitAbs ==
    /\ op = "init" /\ ret = <<>> /\ err = NoError
    /\ s = <<>> /\ sep = <<>> /\ n2 = 0 /\ n3 = 0
    /\ n1 \in MinIntW..MaxIntW

DoAbs ==
    LET r == Abs(n1)
    IN  op' = "Abs" /\ ret' = r.val /\ err' = r.err /\ UNCHANGED inputs

NextAbs == DoAbs

SpecAbs == InitAbs /\ [][NextAbs]_vars

(***************************************************************************)
(* Vocabulary of the claims.                                               *)
(***************************************************************************)
\* The error kind a message of utils.go stands for.
ErrKind(msg) ==
    CASE msg = NoError -> "None"
      [] msg = "n cannot be negative" -> "InvalidArgument"
      [] msg = "separator cannot be empty if string is not empty" -> "InvalidArgument"
      [] msg = "min cannot be greater than max" -> "InvalidRange"
      [] msg = "minLength and maxLength must be non-negative" -> "InvalidRange"
      [] msg = "minLength cannot be greater than maxLength" -> "InvalidRange"
      [] msg = "string is too short" -> "TooShort"
      [] msg = "string is too long" -> "TooLong"
      [] OTHER -> "Crash"

\* A text is well-formed when it is the UTF-8 encoding of its codepoints.
WellFormed(str) == String(Runes(str)) = str

Smaller(a, b) == IF a < b THEN a ELSE b

Backwards(q) == [k \in 1..Len(q) |-> q[Len(q) + 1 - k]]

Exchanged(q, i, j) ==
    [k \in 1..Len(q) |-> IF k = i + 1 THEN q[j + 1] ELSE IF k = j + 1 THEN q[i + 1] ELSE q[k]]

Result == [val |-> ret, err |-> err]

(***************************************************************************)
(* C1: for lo <= hi, Clamp(v, lo, hi) returns without error a value within *)
(* [lo, hi]: lo when v < lo, hi when v > hi, v itself otherwise.           *)
(***************************************************************************)
C1_ClampWithinRange ==
    (op = "Clamp" /\ n2 <= n3) =>
        /\ err = NoError
        /\ ret >= n2 /\ ret <= n3
        /\ (n1 < n2 => ret = n2)
        /\ (n1 > n3 => ret = n3)
        /\ (n1 >= n2 /\ n1 <= n3 => ret = n1)

C1_Witness == op = "Clamp" /\ n2 < n3 /\ n1 > n3 /\ ret = n3

(***************************************************************************)
(* C2 as stated: Truncate, Clamp and Swap never fail, whatever the input.  *)
(***************************************************************************)
C2_PermissiveNeverFail ==
    op \in {"Truncate", "Clamp", "Swap"} => err = NoError

(***************************************************************************)
(* C2 amended: Truncate and Swap never fail (negative n, out-of-range or   *)
(* equal indices give back the input); Clamp returns no error when         *)
(* low <= high, and fails with (0, "min cannot be greater than max")       *)
(* exactly when low > high.                                                *)
(***************************************************************************)
C2_TruncateSwapNeverFailClampFailsOnBadRange ==
    /\ op = "Truncate" => err = NoError /\ (n1 < 0 => ret = s)
    /\ op = "Swap" =>
          /\ err = NoError
          /\ (~InRange(Runes(s), n1) \/ ~InRange(Runes(s), n2) \/ n1 = n2) => ret = s
    /\ op = "Clamp" =>
          /\ err = NoError <=> n2 <= n3
          /\ n2 > n3 => ret = 0 /\ err = "min cannot be greater than max"

C2_Witness == op = "Clamp" /\ n2 > n3 /\ err # NoError

(***************************************************************************)
(* C3: SafeTruncate fails (InvalidArgument) iff n < 0 and otherwise        *)
(* returns what Truncate returns; SafeClamp fails (InvalidRange) iff       *)
(* low > high and otherwise returns what Clamp returns.                    *)
(***************************************************************************)
C3_SafeVariantsAgree ==
    /\ op = "SafeTruncate" =>
          /\ err # NoError <=> n1 < 0
          /\ n1 < 0 => ErrKind(err) = "InvalidArgument"
          /\ n1 >= 0 => Result = Truncate(s, n1)
    /\ op = "SafeClamp" =>
          /\ err # NoError <=> n2 > n3
          /\ n2 > n3 => ErrKind(err) = "InvalidRange"
          /\ n2 <= n3 => Result = Clamp(n1, n2, n3)

C3_Witness == op = "SafeClamp" /\ n2 > n3 /\ ErrKind(err) = "InvalidRange"

(***************************************************************************)
(* C4: for n >= 0, Truncate(t, n) is the first min(len(t), n) codepoints   *)
(* of t; for n < 0 it is t.                                                *)
(***************************************************************************)
C4_TruncatePrefix ==
    op = "Truncate" =>
        LET runes == Runes(s)
            k == Smaller(Len(runes), n1)
        IN  /\ err = NoError
            /\ n1 < 0 => ret = s
            /\ n1 >= 0 =>
                  /\ Runes(ret) = SubSeq(runes, 1, k)
                  /\ Len(Runes(ret)) = k
                  /\ WellFormed(s) => ret = String(SubSeq(runes, 1, k))

C4_Witness ==
    /\ op = "Truncate" /\ n1 > 0 /\ n1 < Len(Runes(s))
    /\ Len(s) > Len(Runes(s)) /\ Len(ret) > n1

(***************************************************************************)
(* C5: Reverse(t) holds the codepoints of t in opposite order, and         *)
(* Reverse(Reverse(t)) = t for every text t that is a codepoint sequence.  *)
(***************************************************************************)
C5_ReverseInvolution ==
    op = "Reverse" =>
        /\ err = NoError
        /\ Runes(ret) = Backwards(Runes(s))
        /\ WellFormed(s) => Reverse(ret).val = s

C5_Witness ==
    op = "Reverse" /\ Len(Runes(s)) = 3 /\ Len(s) > 3 /\ ret # s /\ WellFormed(s)

(***************************************************************************)
(* C7: ValidateLength reports InvalidRange whenever min < 0, max < 0 or    *)
(* min > max, whatever the length; otherwise TooShort below min, TooLong   *)
(* above max, and success exactly when min <= count <= max.                *)
(***************************************************************************)
C7_ValidateLengthOutcome ==
    op = "ValidateLength" =>
        LET count == Len(Runes(s))
        IN  ErrKind(err) =
                IF n1 < 0 \/ n2 < 0 \/ n1 > n2 THEN "InvalidRange"
                ELSE IF count < n1 THEN "TooShort"
                ELSE IF count > n2 THEN "TooLong"
                ELSE "None"

C7_Witness ==
    /\ op = "ValidateLength" /\ n2 >= 0 /\ n1 > n2 /\ Len(Runes(s)) < n1
    /\ Len(s) > Len(Runes(s)) /\ ErrKind(err) = "InvalidRange"

IsAlnum(r) == IsLetter(r) \/ IsNumber(r)

NotHyphen(r) == r # 45

\* The output owed to position k of the codepoints q: nothing for a
\* separator; for a kept codepoint c, Keep(c), preceded by the joint when a
\* run of separators ends just before k and a kept codepoint came earlier.
Owed(q, k, IsKept(_), Keep(_), joint) ==
    IF ~IsKept(q[k]) THEN <<>>
    ELSE (IF k > 1 /\ ~IsKept(q[k - 1]) /\ (\E j \in 1..(k - 1) : IsKept(q[j]))
          THEN <<joint>> ELSE <<>>) \o <<Keep(q[k])>>

C6_SlugShape ==
    op = "Slugify" =>
        LET q == Runes(s)
            out == Runes(ret)
            expected == Flatten([k \in 1..Len(q) |-> Owed(q, k, IsAlnum, ToLower, 45)])
        IN  /\ err = NoError
            /\ \A k \in 1..(Len(out) - 1) : ~(out[k] = 45 /\ out[k + 1] = 45)
            /\ out # <<>> => out[1] # 45 /\ out[Len(out)] # 45
            /\ SelectSeq(out, NotHyphen) =
                  Flatten([k \in 1..Len(q) |->
                              IF IsAlnum(q[k]) THEN <<ToLower(q[k])>> ELSE <<>>])
            /\ ret = String(expected)

C6_Witness ==
    LET q == Runes(s)
    IN  /\ op = "Slugify" /\ Len(q) = 4
        /\ q[1] = 201 /\ ~IsAlnum(q[2]) /\ ~IsAlnum(q[3]) /\ q[2] # q[3] /\ IsAlnum(q[4])
        /\ Len(Runes(ret)) = 3

(***************************************************************************)
(* C8: SafeSplit fails with InvalidArgument iff the separator is empty and *)
(* the text is not; both empty give an empty result; an empty text and a   *)
(* non-empty separator give one empty element; with a non-empty separator  *)
(* the pieces joined by the separator give back the text, and no piece     *)
(* holds the separator.                                                    *)
(***************************************************************************)
RECURSIVE Join(_, _)
Join(pieces, sub) ==
    IF pieces = <<>> THEN <<>>
    ELSE IF Len(pieces) = 1 THEN pieces[1]
    ELSE pieces[1] \o sub \o Join(Tail(pieces), sub)

Occurs(sub, str) ==
    \E i \in 0..(Len(str) - Len(sub)) : SubSeq(str, i + 1, i + Len(sub)) = sub

C8_SafeSplitOutcome ==
    op = "SafeSplit" =>
        /\ ErrKind(err) = IF sep = <<>> /\ s # <<>> THEN "InvalidArgument" ELSE "None"
        /\ (sep = <<>> /\ s = <<>>) => ret = <<>>
        /\ (sep # <<>> /\ s = <<>>) => ret = << <<>> >>
        /\ sep # <<>> =>
              /\ Len(ret) >= 1
              /\ Join(ret, sep) = s
              /\ \A k \in 1..Len(ret) : ~Occurs(sep, ret[k])

C8_Witness ==
    /\ op = "SafeSplit" /\ Len(sep) = 2 /\ Len(ret) = 2
    /\ ret[1] # <<>> /\ ret[2] # <<>>

(***************************************************************************)
(* C10: NormalizeSpaces returns the non-whitespace codepoints of the input *)
(* in order, with exactly one ASCII space for every maximal whitespace run *)
(* between two of them and none at either end; an empty or all-whitespace  *)
(* input gives the empty text, and normalizing the output changes nothing. *)
(***************************************************************************)
NotSpace(r) == ~IsSpace(r)

Same(r) == r

C10_NormalizeSpacesShape ==
    op = "NormalizeSpaces" =>
        LET q == Runes(s)
            out == Runes(ret)
            expected == Flatten([k \in 1..Len(q) |-> Owed(q, k, NotSpace, Same, 32)])
        IN  /\ err = NoError
            /\ ret = String(expected)
            /\ SelectSeq(out, NotSpace) = SelectSeq(q, NotSpace)
            /\ \A k \in 1..Len(out) : IsSpace(out[k]) =>
                  /\ out[k] = 32
                  /\ k > 1 /\ k < Len(out)
                  /\ ~IsSpace(out[k - 1]) /\ ~IsSpace(out[k + 1])
            /\ (\A k \in 1..Len(q) : IsSpace(q[k])) => ret = <<>>
            /\ NormalizeSpaces(ret).val = ret

C10_Witness ==
    LET q == Runes(s)
    IN  /\ op = "NormalizeSpaces" /\ Len(q) = 4
        /\ q[1] = 233 /\ q[2] = 160 /\ q[3] = 12288 /\ q[4] = 97
        /\ ret = <<195, 169, 32, 97>>

(***************************************************************************)
(* C11: IsPalindrome(t) = IsPalindrome(Reverse(t)); IsPalindrome is true   *)
(* exactly when the letter/digit codepoints of t, case-folded, read the    *)
(* same forwards and backwards, so that inserting a non-alphanumeric       *)
(* codepoint or changing the case of a letter never changes the result.    *)
(***************************************************************************)
\* The case fold of a codepoint: the same for a letter and its other case.
Fold(r) == ToLower(ToUpper(r))

\* The other case of a letter; a codepoint without case is itself.
OtherCase(r) == IF ToUpper(r) # r THEN ToUpper(r) ELSE ToLower(r)

InsertAt(q, k, c) == SubSeq(q, 1, k) \o <<c>> \o SubSeq(q, k + 1, Len(q))

\* IsPalindrome(t) = IsPalindrome(Reverse(t))
C11_SameOnReverse == ret = IsPalindrome(Reverse(s).val).val

\* true exactly when the folded letters and digits read the same both ways
C11_FoldedReadsBothWays ==
    LET kept == SelectSeq(Runes(s), IsAlnum)
        folded == [k \in 1..Len(kept) |-> Fold(kept[k])]
    IN  ret = (folded = Backwards(folded))

\* a non-alphanumeric codepoint inserted anywhere changes nothing
C11_SameWithSeparator ==
    LET q == Runes(s)
    IN  \A k \in 0..Len(q) : \A c \in {32, 44, 45} :
            IsPalindrome(String(InsertAt(q, k, c))).val = ret

\* the case of any one letter changed changes nothing
C11_SameInOtherCase ==
    LET q == Runes(s)
    IN  \A k \in 1..Len(q) :
            IsPalindrome(String([q EXCEPT ![k] = OtherCase(q[k])])).val = ret

C11_PalindromeIgnoresCaseAndOrder ==
    op = "IsPalindrome" =>
        /\ err = NoError
        /\ C11_SameOnReverse
        /\ C11_FoldedReadsBothWays
        /\ C11_SameWithSeparator
        /\ C11_SameInOtherCase

(***************************************************************************)
(* C12: for every int n, the minimum included, Abs(n) is the magnitude of  *)
(* n: not negative, n when n >= 0 and -n (modulo 2^w) when n < 0.          *)
(***************************************************************************)
C12_AbsIsMagnitude ==
    op = "Abs" =>
        /\ err = NoError
        /\ ret >= 0
        /\ n1 >= 0 => ret = n1
        /\ n1 < 0 => ret = Wrap(-n1)

====
